---------------------------- MODULE Spec2Model ----------------------------
(***************************************************************************)
(* A model of the notebook src/4-rpmd.ipynb.                               *)
(*                                                                         *)
(* Two parts of the notebook carry algorithms:                             *)
(*   - Exercise 2: the velocity-Verlet cells.  They are modelled as a      *)
(*     state machine over the kernel's global namespace (specification     *)
(*     Spec): one action per code cell, the two integration cells step by  *)
(*     step.  The cells may be run in any order, as a notebook allows.     *)
(*   - Exercise 1: the functions Ei, qij, Cqq_std, Cqq_kubo.  They are     *)
(*     pure functions of their arguments and of the globals m, hbar, beta; *)
(*     specification SpecQ calls them on bounded arguments.                *)
(*                                                                         *)
(* Real numbers are exact rationals <<n, d>> (d > 0, lowest terms); the    *)
(* round-off of the double precision arithmetic is not modelled.           *)
(* exp and sqrt are kept symbolic, in canonical forms in which equality    *)
(* of the forms is equality of the values.                                 *)
(***************************************************************************)
EXTENDS Integers, Sequences, FiniteSets, TLC

VARIABLES
    lit_dt, lit_tmax,          \* the literals of "dt = 0.01", "tmax = 100"
    n_trajs, p0s, q0s,         \* globals of the sampling cell
    f, boltzweight,            \* globals bound by def cells (f is rebound later)
    traj_ens, inv_traj_ens,    \* the two result dictionaries
    heap,                      \* the Python list objects, by identity
    p, q, p0, q0, dt, tmax, steps,
    plist, qlist, flist,       \* globals naming list objects
    i, j,                      \* loop variables (globals of the kernel)
    ps, qs,
    pc, itj, iti,              \* the running cell and its two loop iterators
    err, lastCell, doc,        \* outcome of the last cell; document-order history
    call, ret                  \* SpecQ: the last call of an evaluator and its result

nbvars == <<lit_dt, lit_tmax, n_trajs, p0s, q0s, f, boltzweight, traj_ens,
            inv_traj_ens, heap, p, q, p0, q0, dt, tmax, steps, plist, qlist,
            flist, i, j, ps, qs, pc, itj, iti, err, lastCell, doc>>
qvars == <<call, ret>>
vars == <<nbvars, qvars>>

---------------------------------------------------------------------------
(* Bounds of the model.                                                    *)

\* number of ensemble members (the notebook has n_trajs = 10)
NTrajs == 2
\* the total time tmax of the long run with step size 1
MaxTmax == 6
\* largest truncation order i_max and largest eigenstate index of a direct call
MaxIMax == 2
\* largest grid resolution lgrid
MaxGrid == 3
\* longest time array t
MaxTLen == 2

---------------------------------------------------------------------------
(* Exact rational arithmetic standing for Python's float arithmetic.       *)

Abs(x) == IF x < 0 THEN 0 - x ELSE x

RECURSIVE GCD(_, _)
GCD(a, b) == IF b = 0 THEN a ELSE GCD(b, a % b)

RNorm(n, d) ==
    LET g == GCD(Abs(n), Abs(d))
        s == IF d < 0 THEN 0 - 1 ELSE 1
    IN  <<(s * n) \div g, (s * d) \div g>>

Zero == <<0, 1>>
One == <<1, 1>>
Two == <<2, 1>>
RInt(n) == <<n, 1>>

RNeg(x) == <<0 - x[1], x[2]>>

RAdd(x, y) ==
    LET g == GCD(x[2], y[2])
        a == y[2] \div g
        b == x[2] \div g
    IN  RNorm(x[1] * a + y[1] * b, x[2] * a)

RSub(x, y) == RAdd(x, RNeg(y))

RMul(x, y) ==
    LET g1 == GCD(Abs(x[1]), y[2])
        g2 == GCD(Abs(y[1]), x[2])
    IN  IF x[1] = 0 \/ y[1] = 0 THEN Zero
        ELSE <<(x[1] \div g1) * (y[1] \div g2), (x[2] \div g2) * (y[2] \div g1)>>

\* x / y for y # 0
RDiv(x, y) ==
    RMul(x, IF y[1] < 0 THEN <<0 - y[2], 0 - y[1]>> ELSE <<y[2], y[1]>>)

RLe(x, y) == x[1] * y[2] <= y[1] * x[2]
RLt(x, y) == x[1] * y[2] < y[1] * x[2]
RAbs(x) == <<Abs(x[1]), x[2]>>

\* Python's int(x): truncation toward zero
PyInt(x) == IF x[1] >= 0 THEN x[1] \div x[2] ELSE 0 - ((0 - x[1]) \div x[2])

---------------------------------------------------------------------------
(* Values of the kernel's global names.                                    *)

UnboundInt == 0 - 1
UnboundRat == <<0, 0>>
DocOff == 0 - 1

Unb == [k |-> "unbound", r |-> Zero, a |-> <<>>]
Num(x) == [k |-> "num", r |-> x, a |-> <<>>]
Arr(s) == [k |-> "ndarray", r |-> Zero, a |-> s]
Fn == [k |-> "function", r |-> Zero, a |-> <<>>]

Members == 0 .. (NTrajs - 1)
Keys == {"plist", "qlist", "flist"}
ListIds == {"fwd", "inv"} \X Members \X Keys
NoList == <<"none", 0, "none">>

\* traj_ens[jj] absent; traj_ens[jj] = {}; traj_ens[jj] with its three keys
NoEntry == [present |-> FALSE, full |-> FALSE,
            plist |-> NoList, qlist |-> NoList, flist |-> NoList]
EmptyEntry == [NoEntry EXCEPT !.present = TRUE]
UnboundDict == [bound |-> FALSE, d |-> [jj \in Members |-> NoEntry]]
EmptyDict == [bound |-> TRUE, d |-> [jj \in Members |-> NoEntry]]

UnboundSeq == [bound |-> FALSE, v |-> <<>>]

\* the pairs <<p0, q0>> the two calls of np.random.normal() may return
Starts == {<<Zero, One>>, <<One, Zero>>, <<<<0 - 1, 1>>, One>>}

\* the (dt, tmax) literals tried.  With dt = 1 the map has period 6 and with
\* dt = 2 it is integral, so any number of steps stays within TLC's integers;
\* dt = 1/2 and the notebook's dt = 0.01 are run for the few steps that do.
Half == <<1, 2>>
Hundredth == <<1, 100>>
Lits ==
    {<<One, RInt(MaxTmax)>>, <<Two, One>>, <<Two, <<3, 1>>>>,
     <<Half, <<3, 2>>>>, <<Half, Two>>,
     <<Hundredth, Hundredth>>, <<Hundredth, <<3, 200>>>>}

---------------------------------------------------------------------------
(* The force and one velocity-Verlet step.                                 *)

\* def f(q): return -q
def_f(x) == RNeg(x)

\* p = p + (f(q)) * dt / 2
Kick(pp, qq, h) == RAdd(pp, RDiv(RMul(def_f(qq), h), Two))

\* q = q + p * dt
Drift(pp, qq, h) == RAdd(qq, RMul(pp, h))

\* the drift done first, both half-kicks after it
VVStepDriftFirst(pp, qq, h) ==
    LET q1 == Drift(pp, qq, h)
        p1 == Kick(Kick(pp, q1, h), q1, h)
    IN  <<p1, q1>>

\* both half-kicks and the drift computed from the old state (explicit Euler)
VVStepExplicit(pp, qq, h) ==
    <<Kick(Kick(pp, qq, h), qq, h), Drift(pp, qq, h)>>

\* the three assignments of the loop body, in order; the new <<p, q>>
VVStep(pp, qq, h) ==
    LET p1 == Kick(pp, qq, h)
        q1 == Drift(p1, qq, h)
        p2 == Kick(p1, q1, h)
    IN  <<p2, q1>>

---------------------------------------------------------------------------
(* Exercise 1: the globals m, hbar, beta and the functions Ei, qij.        *)

m == 1
hbar == 1
beta == 1

\* (i + 1/2) * hbar * omega, or (i) * hbar * omega
Ei(ii, omega, return_zero) ==
    IF return_zero
      THEN RMul(RMul(RAdd(RInt(ii), Half), RInt(hbar)), omega)
      ELSE RMul(RMul(RInt(ii), RInt(hbar)), omega)

\* A real value c * sqrt(rad), rad a square-free positive integer.
Surd(c, rad) == [k |-> "surd", c |-> c, rad |-> rad, e |-> "none"]
NaN == [k |-> "nan", c |-> Zero, rad |-> 1, e |-> "none"]
Raised(e) == [k |-> "error", c |-> Zero, rad |-> 1, e |-> e]

\* the largest kk with kk * kk dividing n (n >= 1)
SquarePart(n) ==
    CHOOSE kk \in 1 .. n :
        /\ n % (kk * kk) = 0
        /\ \A ll \in (kk + 1) .. n : n % (ll * ll) # 0

\* c * sqrt(n) for an integer n >= 0, in canonical form
SurdOfInt(c, n) ==
    IF n = 0 \/ c = Zero THEN Surd(Zero, 1)
    ELSE LET s == SquarePart(n) IN Surd(RMul(c, RInt(s)), n \div (s * s))

\* np.sqrt(x): sqrt(n/d) = sqrt(n*d)/d; NaN for x < 0
NpSqrt(x) ==
    IF x[1] < 0 THEN NaN ELSE SurdOfInt(<<1, x[2]>>, x[1] * x[2])

\* the product of two values
SMul(x, y) ==
    IF x.k = "error" THEN x
    ELSE IF y.k = "error" THEN y
    ELSE IF x.k = "nan" \/ y.k = "nan" THEN NaN
    ELSE SurdOfInt(RMul(x.c, y.c), x.rad * y.rad)

\* hbar / (2 * m * omega) raises ZeroDivisionError for the Python number 0
QijScale(omega) ==
    IF omega = Zero THEN Raised("ZeroDivisionError")
    ELSE NpSqrt(RDiv(RInt(hbar), RMul(RInt(2 * m), omega)))

QijNoUpper(ii, jj, omega) ==
    IF ii = jj + 1 THEN SMul(QijScale(omega), NpSqrt(RInt(jj + 1)))
    ELSE Surd(Zero, 1)

\* the lower branch with sqrt(j) where the code has sqrt(j + 1)
QijSameRoot(ii, jj, omega) ==
    IF ii = jj - 1 THEN SMul(QijScale(omega), NpSqrt(RInt(jj)))
    ELSE IF ii = jj + 1 THEN SMul(QijScale(omega), NpSqrt(RInt(jj)))
    ELSE Surd(Zero, 1)

\* the lower branch with the opposite sign (an antisymmetric matrix)
QijAntisymmetric(ii, jj, omega) ==
    IF ii = jj - 1 THEN SMul(QijScale(omega), NpSqrt(RInt(jj)))
    ELSE IF ii = jj + 1
      THEN SMul(Surd(<<0 - 1, 1>>, 1), SMul(QijScale(omega), NpSqrt(RInt(jj + 1))))
    ELSE Surd(Zero, 1)

\* def qij(i, j, omega=1)
qij(ii, jj, omega) ==
    IF ii = jj - 1 THEN SMul(QijScale(omega), NpSqrt(RInt(jj)))
    ELSE IF ii = jj + 1 THEN SMul(QijScale(omega), NpSqrt(RInt(jj + 1)))
    ELSE Surd(Zero, 1)

\* the default value of the parameter omega of Ei and qij
DefaultOmega == One

---------------------------------------------------------------------------
(* Formal sums  SUM coef * sqrt(rad) * exp(b) * exp(-1j * w * t)  with     *)
(* rational coef, b, w: a function from the keys <<b, w, rad>> with a      *)
(* non-zero coefficient to that coefficient.  exp at distinct rational     *)
(* arguments and square roots of distinct square-free integers are         *)
(* linearly independent over the rationals, so two sums are the same       *)
(* function of t exactly when they are the same TLA+ function.             *)

EmptySum == [key \in {} |-> Zero]

Coef(F, key) == IF key \in DOMAIN F THEN F[key] ELSE Zero

Single(key, c) == IF c = Zero THEN EmptySum ELSE [kk \in {key} |-> c]

FAdd(F, G) ==
    LET D == {key \in (DOMAIN F) \cup (DOMAIN G) :
                 RAdd(Coef(F, key), Coef(G, key)) # Zero}
    IN  [key \in D |-> RAdd(Coef(F, key), Coef(G, key))]

\* the product of the terms F[x] at key x and G[y] at key y
TermProduct(F, x, G, y) ==
    LET s == SurdOfInt(RMul(F[x], G[y]), x[3] * y[3])
    IN  Single(<<RAdd(x[1], y[1]), RAdd(x[2], y[2]), s.rad>>, s.c)

RECURSIVE SumProducts(_, _, _)
SumProducts(F, G, pairs) ==
    IF pairs = {} THEN EmptySum
    ELSE LET xy == CHOOSE xy \in pairs : TRUE
         IN  FAdd(TermProduct(F, xy[1], G, xy[2]),
                  SumProducts(F, G, pairs \ {xy}))

FMul(F, G) == SumProducts(F, G, (DOMAIN F) \X (DOMAIN G))

\* np.exp(x) for a real x; np.exp(-1j * w * t); a value c * sqrt(rad)
ExpReal(x) == Single(<<x, Zero, 1>>, One)
ExpPhase(w) == Single(<<Zero, w, 1>>, One)
OfSurd(s) == Single(<<Zero, Zero, s.rad>>, s.c)

\* t * 0, elementwise for an array
TimesZero(t) ==
    IF t.k = "ndarray" THEN Arr([kk \in 1 .. Len(t.a) |-> RMul(t.a[kk], Zero)])
    ELSE Num(RMul(t.r, Zero))

---------------------------------------------------------------------------
(* Results of a call.                                                      *)

NoRet == [k |-> "none", v |-> Unb, num |-> EmptySum, den |-> EmptySum,
          s |-> Surd(Zero, 1), e |-> "none"]
RetValue(v) == [NoRet EXCEPT !.k = "value", !.v = v]
RetQuot(num, den, t) == [NoRet EXCEPT !.k = "quot", !.num = num, !.den = den, !.v = t]
RetReal(x) == [NoRet EXCEPT !.k = "real", !.v = Num(x)]
RetSurd(s) ==
    IF s.k = "error" THEN [NoRet EXCEPT !.k = "error", !.e = s.e]
    ELSE [NoRet EXCEPT !.k = s.k, !.s = s]
RetError(e) == [NoRet EXCEPT !.k = "error", !.e = e]
\* a result np.exp(x), elementwise for an array: kept as its exponent x
RetExp(x) == [NoRet EXCEPT !.k = "exp", !.v = x]

---------------------------------------------------------------------------
(* Cqq_std.                                                                *)

\* the stop of "for j in range(0, i + 2)"
InnerStop(ii) == ii + 2

\* qij(i,j) * qij(j,i) in Cqq_std: omega is in scope and is not passed to qij
StdElements(ii, jj, omega) ==
    SMul(qij(ii, jj, DefaultOmega), qij(jj, ii, DefaultOmega))

\* the summand of sumj in Cqq_std
StdSummand(ii, jj, omega) ==
    FMul(ExpPhase(RDiv(RSub(Ei(ii, omega, FALSE), Ei(jj, omega, FALSE)), RInt(hbar))),
         OfSurd(StdElements(ii, jj, omega)))

\* sumj after the passes jj = 0 .. stop - 1 of the inner loop
RECURSIVE StdSumj(_, _, _)
StdSumj(ii, omega, stop) ==
    IF stop <= 0 THEN EmptySum
    ELSE FAdd(StdSumj(ii, omega, stop - 1), StdSummand(ii, stop - 1, omega))

\* np.exp(-beta * Ei(i, omega))
StdBoltz(ii, omega) == ExpReal(RNeg(RMul(RInt(beta), Ei(ii, omega, FALSE))))

\* rc and rz after the passes ii = 0 .. stop - 1 of the outer loop
RECURSIVE StdRc(_, _)
StdRc(omega, stop) ==
    IF stop <= 0 THEN EmptySum
    ELSE FAdd(StdRc(omega, stop - 1),
              FMul(StdSumj(stop - 1, omega, InnerStop(stop - 1)),
                   StdBoltz(stop - 1, omega)))

RECURSIVE StdRz(_, _)
StdRz(omega, stop) ==
    IF stop <= 0 THEN EmptySum
    ELSE FAdd(StdRz(omega, stop - 1), StdBoltz(stop - 1, omega))

\* the test "if i_max > 0" that selects rc / rz
WantsQuotientAtZero(i_max) == i_max >= 0
WantsQuotient(i_max) == i_max > 0

\* def Cqq_std(t, omega=1, i_max=100)
Cqq_std(t, omega, i_max) ==
    IF WantsQuotient(i_max)
      THEN RetQuot(StdRc(omega, i_max + 1), StdRz(omega, i_max + 1), t)
      ELSE RetValue(TimesZero(t))

---------------------------------------------------------------------------
(* Cqq_kubo.                                                               *)

\* np.linspace(0, beta, n) for n >= 0
Linspace(n) ==
    [kk \in 1 .. n |-> IF n = 1 THEN Zero
                       ELSE RDiv(RMul(RInt(kk - 1), RInt(beta)), RInt(n - 1))]

\* np.sum(np.exp(-lgrid * (Ei(j) - Ei(i)))); omega is not passed to Ei
RECURSIVE KuboExpSum(_, _, _)
KuboExpSum(grid, de, n) ==
    IF n = 0 THEN EmptySum
    ELSE FAdd(KuboExpSum(grid, de, n - 1), ExpReal(RMul(RNeg(grid[n]), de)))

KuboDe(ii, jj) == RSub(Ei(jj, DefaultOmega, FALSE), Ei(ii, DefaultOmega, FALSE))

\* lterm, for a grid of at least two points
KuboLterm(grid, ii, jj) ==
    FMul(KuboExpSum(grid, KuboDe(ii, jj), Len(grid)),
         Single(<<Zero, Zero, 1>>, RDiv(RSub(grid[2], grid[1]), RInt(beta))))

\* np.exp(-(beta) * Ei(i)); omega is not passed to Ei
KuboBoltz(ii) == ExpReal(RNeg(RMul(RInt(beta), Ei(ii, DefaultOmega, FALSE))))

\* qij(i,j) * qij(j,i) in Cqq_kubo: omega is in scope and is not passed to qij
KuboElements(ii, jj, omega) ==
    SMul(qij(ii, jj, DefaultOmega), qij(jj, ii, DefaultOmega))

\* the summand of rcqq
KuboSummand(grid, ii, jj, omega) ==
    FMul(FMul(FMul(KuboLterm(grid, ii, jj), KuboBoltz(ii)),
              ExpPhase(RDiv(RSub(Ei(ii, DefaultOmega, FALSE),
                                 Ei(jj, DefaultOmega, FALSE)), RInt(hbar)))),
         OfSurd(KuboElements(ii, jj, omega)))

RECURSIVE KuboInner(_, _, _, _)
KuboInner(grid, ii, stop, omega) ==
    IF stop <= 0 THEN EmptySum
    ELSE FAdd(KuboInner(grid, ii, stop - 1, omega),
              KuboSummand(grid, ii, stop - 1, omega))

RECURSIVE KuboRcqq(_, _, _)
KuboRcqq(grid, stop, omega) ==
    IF stop <= 0 THEN EmptySum
    ELSE FAdd(KuboRcqq(grid, stop - 1, omega),
              KuboInner(grid, stop - 1, InnerStop(stop - 1), omega))

RECURSIVE KuboRz(_)
KuboRz(stop) ==
    IF stop <= 0 THEN EmptySum
    ELSE FAdd(KuboRz(stop - 1), KuboBoltz(stop - 1))

\* def Cqq_kubo(t, omega=1, i_max=100, lgrid=1000)
\* the test of i_max done before the loop instead of after it
CqqKuboTestFirst(t, omega, i_max, lgrid) ==
    IF lgrid < 0 THEN RetError("ValueError")
    ELSE IF ~WantsQuotient(i_max) THEN RetValue(TimesZero(t))
    ELSE IF lgrid < 2 THEN RetError("IndexError")
    ELSE RetQuot(KuboRcqq(Linspace(lgrid), i_max + 1, omega), KuboRz(i_max + 1), t)

Cqq_kubo(t, omega, i_max, lgrid) ==
    IF lgrid < 0 THEN RetError("ValueError")
    ELSE IF i_max >= 0 /\ lgrid < 2 THEN RetError("IndexError")
    ELSE IF WantsQuotient(i_max)
      THEN RetQuot(KuboRcqq(Linspace(lgrid), i_max + 1, omega), KuboRz(i_max + 1), t)
      ELSE RetValue(TimesZero(t))

---------------------------------------------------------------------------
(* SpecQ: one call of a function of Exercise 1 on bounded arguments.       *)

NoCall == [fn |-> "none", i |-> 0, j |-> 0, omega |-> Zero, return_zero |-> FALSE,
           t |-> Unb, i_max |-> 0, lgrid |-> 0, p |-> Unb, q |-> Unb, beta |-> Zero]

Omegas == {<<0 - 1, 1>>, Zero, Half, One, Two}
TVals == {Zero, One}
Times ==
    {Num(x) : x \in TVals}
        \cup UNION {{Arr(a) : a \in [1 .. n -> TVals]} : n \in 0 .. MaxTLen}
Indices == 0 .. (MaxIMax + 1)

Calls ==
    {[NoCall EXCEPT !.fn = "Ei", !.i = ii, !.omega = w, !.return_zero = z] :
        ii \in Indices, w \in Omegas, z \in BOOLEAN}
    \cup {[NoCall EXCEPT !.fn = "qij", !.i = ii, !.j = jj, !.omega = w] :
        ii \in Indices, jj \in Indices, w \in Omegas}
    \cup {[NoCall EXCEPT !.fn = "Cqq_std", !.t = t, !.omega = w, !.i_max = n] :
        t \in Times, w \in Omegas, n \in (0 - 1) .. MaxIMax}
    \cup {[NoCall EXCEPT !.fn = "Cqq_kubo", !.t = t, !.omega = w, !.i_max = n,
                         !.lgrid = g] :
        t \in Times, w \in Omegas, n \in (0 - 1) .. MaxIMax, g \in (0 - 1) .. MaxGrid}

InitQ ==
    /\ lit_dt = Hundredth /\ lit_tmax = Hundredth
    /\ n_trajs = UnboundInt /\ p0s = UnboundSeq /\ q0s = UnboundSeq
    /\ f = Unb /\ boltzweight = "unbound"
    /\ traj_ens = UnboundDict /\ inv_traj_ens = UnboundDict
    /\ heap = [id \in ListIds |-> <<>>]
    /\ p = Unb /\ q = Unb /\ p0 = UnboundRat /\ q0 = UnboundRat
    /\ dt = UnboundRat /\ tmax = UnboundRat /\ steps = UnboundInt
    /\ plist = NoList /\ qlist = NoList /\ flist = NoList
    /\ i = UnboundInt /\ j = UnboundInt
    /\ ps = Unb /\ qs = Unb
    /\ pc = "idle" /\ itj = 0 /\ iti = 0
    /\ err = "none" /\ lastCell = "none" /\ doc = 0
    /\ call \in Calls
    /\ ret = NoRet

Pending(fn) == call.fn = fn /\ ret.k = "none"

CallEi ==
    /\ Pending("Ei")
    /\ ret' = RetReal(Ei(call.i, call.omega, call.return_zero))
    /\ UNCHANGED <<nbvars, call>>

CallQij ==
    /\ Pending("qij")
    /\ ret' = RetSurd(qij(call.i, call.j, call.omega))
    /\ UNCHANGED <<nbvars, call>>

CallCqqStd ==
    /\ Pending("Cqq_std")
    /\ ret' = Cqq_std(call.t, call.omega, call.i_max)
    /\ UNCHANGED <<nbvars, call>>

CallCqqKubo ==
    /\ Pending("Cqq_kubo")
    /\ ret' = Cqq_kubo(call.t, call.omega, call.i_max, call.lgrid)
    /\ UNCHANGED <<nbvars, call>>

NextQ == CallEi \/ CallQij \/ CallCqqStd \/ CallCqqKubo

SpecQ == InitQ /\ [][NextQ]_vars

---------------------------------------------------------------------------
(* Claims about the evaluators (specification SpecQ).                      *)

Returned(fn) == call.fn = fn /\ ret.k # "none"

\* the key of exp(-beta E_i) exp(-1j (E_i - E_j) t / hbar), E_n = n hbar omega
PairKey(ii, jj, omega) ==
    <<RNeg(RMul(RInt(beta * ii * hbar), omega)),
      RDiv(RMul(RInt((ii - jj) * hbar), omega), RInt(hbar)), 1>>

\* q_ij q_ji = hbar max(i, j) / (2 m w) for |i - j| = 1, else 0
ElementProduct(ii, jj, w) ==
    IF Abs(ii - jj) = 1
      THEN RDiv(RInt(hbar * (IF ii > jj THEN ii ELSE jj)), RMul(RInt(2 * m), w))
      ELSE Zero

\* the sum of exp(-beta E_i) exp(-1j (E_i - E_j) t / hbar) q_ij q_ji over a
\* set of pairs <<i, j>>, energies at omega, matrix elements at w
RECURSIVE PairSum(_, _, _)
PairSum(pairs, omega, w) ==
    IF pairs = {} THEN EmptySum
    ELSE LET x == CHOOSE x \in pairs : TRUE
         IN  FAdd(Single(PairKey(x[1], x[2], omega), ElementProduct(x[1], x[2], w)),
                  PairSum(pairs \ {x}, omega, w))

\* the pairs i = 0 .. n, j = 0 .. i + 1
PairsUpTo(n) == {x \in (0 .. n) \X (0 .. (n + 1)) : x[2] <= x[1] + 1}

\* Z = the sum of exp(-beta E_i) over the states of a set
RECURSIVE PartitionSum(_, _)
PartitionSum(states, omega) ==
    IF states = {} THEN EmptySum
    ELSE LET x == CHOOSE x \in states : TRUE
         IN  FAdd(Single(PairKey(x, x, omega), One),
                  PartitionSum(states \ {x}, omega))

\* the all-zero result of the shape of t
IsZerosLike(v, t) ==
    /\ v.k = t.k
    /\ v.r = Zero
    /\ Len(v.a) = Len(t.a)
    /\ \A kk \in 1 .. Len(v.a) : v.a[kk] = Zero

(* C6: for i_max >= 1, Cqq_std(t, omega, i_max) is the sum over            *)
(* i = 0..i_max, j = 0..i+1 of exp(-beta E_i) exp(-1j (E_i - E_j) t/hbar)  *)
(* q_ij q_ji, with the energies and the matrix elements of the oscillator  *)
(* of frequency omega, divided by the sum Z of exp(-beta E_i) over         *)
(* i = 0..i_max.                                                           *)
C6_StdIsTruncatedSum ==
    (Returned("Cqq_std") /\ call.i_max >= 1 /\ RLt(Zero, call.omega)) =>
        /\ ret.k = "quot"
        /\ ret.v = call.t
        /\ ret.num = PairSum(PairsUpTo(call.i_max), call.omega, call.omega)
        /\ ret.den = PartitionSum(0 .. call.i_max, call.omega)

\* what Cqq_std returns for i_max >= 1: the sum of C6 with the matrix
\* elements of omega = 1 whatever omega is; the pair (i_max, i_max + 1) is in
\* the numerator and the state i_max + 1 is not in Z
StdSumWithUnitElements ==
    (Returned("Cqq_std") /\ call.i_max >= 1) =>
        /\ ret.k = "quot"
        /\ ret.v = call.t
        /\ ret.num = PairSum(PairsUpTo(call.i_max), call.omega, DefaultOmega)
        /\ ret.den = PartitionSum(0 .. call.i_max, call.omega)
        /\ call.omega # Zero =>
              /\ Coef(ret.num, PairKey(call.i_max, call.i_max + 1, call.omega))
                    = ElementProduct(call.i_max, call.i_max + 1, DefaultOmega)
              /\ PairKey(call.i_max + 1, call.i_max + 1, call.omega)
                    \notin DOMAIN ret.den

(* C7 as stated: at i_max = 0 both evaluators return zeros of the shape of *)
(* t, for every t, omega and grid resolution.                              *)
C7_ZeroAtOrderZero ==
    ((Returned("Cqq_std") \/ Returned("Cqq_kubo")) /\ call.i_max = 0) =>
        ret.k = "value" /\ IsZerosLike(ret.v, call.t)

(* C7, amended: at i_max = 0 Cqq_std returns zeros of the shape of t for   *)
(* every t and omega, and Cqq_kubo does for every grid resolution of at    *)
(* least 2; for a resolution of 0 or 1 Cqq_kubo raises IndexError and for  *)
(* a negative one ValueError.                                              *)
C7_ZeroAtOrderZeroOnGrid ==
    /\ (Returned("Cqq_std") /\ call.i_max = 0) =>
          ret.k = "value" /\ IsZerosLike(ret.v, call.t)
    /\ (Returned("Cqq_kubo") /\ call.i_max = 0) =>
          IF call.lgrid >= 2 THEN ret.k = "value" /\ IsZerosLike(ret.v, call.t)
          ELSE IF call.lgrid >= 0 THEN ret.k = "error" /\ ret.e = "IndexError"
          ELSE ret.k = "error" /\ ret.e = "ValueError"

C7_Witness ==
    /\ Returned("Cqq_kubo") /\ call.i_max = 0 /\ call.lgrid = 2
    /\ call.omega = Two
    /\ call.t = Arr(<<Zero, One>>)
    /\ ret.k = "value" /\ ret.v = Arr(<<Zero, Zero>>)

(* C8: Cqq_kubo evaluates its energies at the omega it is passed, so that  *)
(* its normalization Z is the one Cqq_std uses for that omega and i_max.   *)
C8_KuboEnergiesUseOmega ==
    (Returned("Cqq_kubo") /\ ret.k = "quot" /\ RLt(Zero, call.omega)) =>
        /\ ret.den = Cqq_std(call.t, call.omega, call.i_max).den
        /\ ret.den = PartitionSum(0 .. call.i_max, call.omega)

(* C9: both evaluators use the matrix elements of the omega they are       *)
(* passed: each product q_ij q_ji with |i - j| = 1 that contributes to a   *)
(* returned quotient is hbar max(i, j) / (2 m omega).                      *)
C9_ElementsUseOmega ==
    (ret.k = "quot" /\ RLt(Zero, call.omega)) =>
        \A x \in PairsUpTo(call.i_max) :
            Abs(x[1] - x[2]) = 1 =>
                /\ call.fn = "Cqq_std" =>
                      StdElements(x[1], x[2], call.omega)
                          = Surd(ElementProduct(x[1], x[2], call.omega), 1)
                /\ call.fn = "Cqq_kubo" =>
                      KuboElements(x[1], x[2], call.omega)
                          = Surd(ElementProduct(x[1], x[2], call.omega), 1)

\* a value that is not zero (NaN compares unequal to 0)
IsNonZero(r) == r.k = "nan" \/ (r.k = "surd" /\ r.s.c # Zero)
IsZeroValue(r) == r.k = "surd" /\ r.s = Surd(Zero, 1)

(* C10 as stated: qij(i, j, omega) is 0 whenever |i - j| # 1 and non-zero  *)
(* whenever |i - j| = 1, for every omega.                                  *)
C10_SelectionRule ==
    Returned("qij") =>
        IF Abs(call.i - call.j) = 1 THEN IsNonZero(ret) ELSE IsZeroValue(ret)

(* C10, amended: qij(i, j, omega) is 0 whenever |i - j| # 1, for every     *)
(* omega; whenever |i - j| = 1 it is non-zero for every omega other than   *)
(* 0 (NaN for omega < 0), and for omega = 0 the call raises                *)
(* ZeroDivisionError.                                                      *)
C10_SelectionRuleNonZeroOmega ==
    Returned("qij") =>
        IF Abs(call.i - call.j) # 1 THEN IsZeroValue(ret)
        ELSE IF call.omega = Zero
          THEN ret.k = "error" /\ ret.e = "ZeroDivisionError"
        ELSE IF RLt(call.omega, Zero) THEN ret.k = "nan"
        ELSE ret.k = "surd" /\ ret.s.c # Zero

C10_Witness ==
    /\ Returned("qij") /\ call.i = 1 /\ call.j = 2 /\ call.omega = One
    /\ ret.k = "surd" /\ ret.s = Surd(One, 1)

\* sqrt(hbar / (2 m omega)) sqrt(max(i, j)) for omega > 0
ElementValue(ii, jj, omega) ==
    SMul(NpSqrt(RDiv(RInt(hbar), RMul(RInt(2 * m), omega))),
         NpSqrt(RInt(IF ii > jj THEN ii ELSE jj)))

(* C11: for every omega > 0, qij(i, j, omega) = qij(j, i, omega); when     *)
(* |i - j| = 1 both are sqrt(hbar / (2 m omega)) sqrt(max(i, j)), and      *)
(* qij(1, 2, omega=1) = 1.                                                 *)
C11_Symmetric ==
    (Returned("qij") /\ RLt(Zero, call.omega)) =>
        /\ ret = RetSurd(qij(call.j, call.i, call.omega))
        /\ Abs(call.i - call.j) = 1 =>
              /\ ret.k = "surd"
              /\ ret.s = ElementValue(call.i, call.j, call.omega)
              /\ qij(call.j, call.i, call.omega)
                    = ElementValue(call.i, call.j, call.omega)
        /\ (call.i = 1 /\ call.j = 2 /\ call.omega = One) => ret.s = Surd(One, 1)

C11_Witness ==
    /\ Returned("qij") /\ call.i = 2 /\ call.j = 1 /\ call.omega = Half
    /\ ret.k = "surd" /\ ret.s = Surd(One, 2)

\* the sum F at the time x: exp(-1j w t) becomes exp(-1j (w x)), and the terms
\* of equal exponents are added
RECURSIVE AtTimeOver(_, _, _)
AtTimeOver(F, x, keys) ==
    IF keys = {} THEN EmptySum
    ELSE LET key == CHOOSE key \in keys : TRUE
         IN  FAdd(Single(<<key[1], RMul(key[2], x), key[3]>>, F[key]),
                  AtTimeOver(F, x, keys \ {key}))

AtTime(F, x) == AtTimeOver(F, x, DOMAIN F)

\* the time points of an argument t
TimePoints(t) ==
    IF t.k = "ndarray" THEN {t.a[kk] : kk \in 1 .. Len(t.a)} ELSE {t.r}

\* no term of the sum has a phase: its imaginary part is zero
HasNoPhase(F) == \A key \in DOMAIN F : key[2] = Zero

\* every coefficient is positive (the square roots and exp are positive)
HasPositiveTerms(F) == \A key \in DOMAIN F : RLt(Zero, F[key])

(* C12: for every omega > 0 and i_max >= 0, Cqq_std at t = 0 has zero      *)
(* imaginary part and a non-negative real part.                            *)
C12_RealNonNegativeAtZero ==
    (Returned("Cqq_std") /\ RLt(Zero, call.omega) /\ call.i_max >= 0) =>
        \A x \in TimePoints(call.t) :
            x = Zero =>
                IF ret.k = "quot"
                  THEN /\ HasNoPhase(AtTime(ret.num, x))
                       /\ HasPositiveTerms(AtTime(ret.num, x))
                       /\ HasNoPhase(AtTime(ret.den, x))
                       /\ HasPositiveTerms(AtTime(ret.den, x))
                       /\ AtTime(ret.den, x) # EmptySum
                  ELSE /\ ret.k = "value"
                       /\ call.i_max = 0
                       /\ IsZerosLike(ret.v, call.t)

C12_Witness ==
    /\ Returned("Cqq_std") /\ call.omega = Two /\ call.i_max = MaxIMax
    /\ call.t = Arr(<<Zero, One>>)
    /\ ret.k = "quot"
    /\ AtTime(ret.num, Zero) # EmptySum
    /\ HasNoPhase(AtTime(ret.num, Zero))
    /\ ~HasNoPhase(AtTime(ret.num, One))

(* C18 as stated: for a grid resolution lgrid <= 1 Cqq_kubo fails with an  *)
(* index error for every i_max >= 0, and returns zeros for i_max < 0.      *)
C18_ShortGridIndexError ==
    (Returned("Cqq_kubo") /\ call.lgrid <= 1) =>
        IF call.i_max >= 0 THEN ret.k = "error" /\ ret.e = "IndexError"
        ELSE ret.k = "value" /\ IsZerosLike(ret.v, call.t)

(* C18, amended: Cqq_kubo needs a grid of at least two points.  For        *)
(* lgrid = 0 or 1 it raises IndexError for every i_max >= 0 (i_max = 0     *)
(* included) and returns zeros for i_max < 0; for lgrid < 0 it raises      *)
(* ValueError whatever i_max is; for lgrid >= 2 it raises nothing.         *)
C18_ShortGridErrors ==
    Returned("Cqq_kubo") =>
        IF call.lgrid < 0 THEN ret.k = "error" /\ ret.e = "ValueError"
        ELSE IF call.lgrid <= 1
          THEN IF call.i_max >= 0 THEN ret.k = "error" /\ ret.e = "IndexError"
               ELSE ret.k = "value" /\ IsZerosLike(ret.v, call.t)
        ELSE ret.k # "error"

C18_Witness ==
    /\ Returned("Cqq_kubo") /\ call.lgrid = 1 /\ call.i_max = 0
    /\ call.t = Arr(<<Zero, One>>)
    /\ ret.k = "error" /\ ret.e = "IndexError"

---------------------------------------------------------------------------
(* Cells of Exercise 2.                                                    *)

\* position of a cell in the document, among the cells modelled
DocIndex(cell) ==
    CASE cell = "sample" -> 1
      [] cell = "def_f" -> 2
      [] cell = "fwd" -> 3
      [] cell = "arc" -> 4
      [] cell = "def_boltzweight" -> 5
      [] cell = "boltz" -> 6
      [] cell = "inv" -> 7

\* history: doc = k when exactly the first k cells were run, once each, in order
DocNext(cell) == IF doc # DocOff /\ doc + 1 = DocIndex(cell) THEN doc + 1 ELSE DocOff

\* a cell starts: the kernel is idle
Begin(cell) ==
    /\ pc = "idle"
    /\ lastCell' = cell
    /\ doc' = DocNext(cell)

Init ==
    /\ \E l \in Lits : lit_dt = l[1] /\ lit_tmax = l[2]
    /\ n_trajs = UnboundInt /\ p0s = UnboundSeq /\ q0s = UnboundSeq
    /\ f = Unb /\ boltzweight = "unbound"
    /\ traj_ens = UnboundDict /\ inv_traj_ens = UnboundDict
    /\ heap = [id \in ListIds |-> <<>>]
    /\ p = Unb /\ q = Unb /\ p0 = UnboundRat /\ q0 = UnboundRat
    /\ dt = UnboundRat /\ tmax = UnboundRat /\ steps = UnboundInt
    /\ plist = NoList /\ qlist = NoList /\ flist = NoList
    /\ i = UnboundInt /\ j = UnboundInt
    /\ ps = Unb /\ qs = Unb
    /\ pc = "idle" /\ itj = 0 /\ iti = 0
    /\ err = "none" /\ lastCell = "none" /\ doc = 0
    /\ call = NoCall /\ ret = NoRet

\* n_trajs = 10; p0s = []; q0s = []; the loop appends one normal sample to each.
\* The model draws the samples once: the cell is not run a second time.
CellSample ==
    /\ Begin("sample")
    /\ ~p0s.bound
    /\ n_trajs' = NTrajs
    /\ \E s \in [1 .. NTrajs -> Starts] :
          /\ p0s' = [bound |-> TRUE, v |-> [kk \in 1 .. NTrajs |-> s[kk][1]]]
          /\ q0s' = [bound |-> TRUE, v |-> [kk \in 1 .. NTrajs |-> s[kk][2]]]
    /\ i' = NTrajs - 1
    /\ err' = "none"
    /\ UNCHANGED <<lit_dt, lit_tmax, f, boltzweight, traj_ens, inv_traj_ens, heap,
                   p, q, p0, q0, dt, tmax, steps, plist, qlist, flist, j, ps, qs,
                   pc, itj, iti, qvars>>

\* def f(q): ...
CellDefF ==
    /\ Begin("def_f")
    /\ f' = Fn
    /\ err' = "none"
    /\ UNCHANGED <<lit_dt, lit_tmax, n_trajs, p0s, q0s, boltzweight, traj_ens,
                   inv_traj_ens, heap, p, q, p0, q0, dt, tmax, steps, plist, qlist,
                   flist, i, j, ps, qs, pc, itj, iti, qvars>>

\* def boltzweight(p, q, beta): ...
CellDefBoltzweight ==
    /\ Begin("def_boltzweight")
    /\ boltzweight' = "function"
    /\ err' = "none"
    /\ UNCHANGED <<lit_dt, lit_tmax, n_trajs, p0s, q0s, f, traj_ens,
                   inv_traj_ens, heap, p, q, p0, q0, dt, tmax, steps, plist, qlist,
                   flist, i, j, ps, qs, pc, itj, iti, qvars>>

(* The forward ensemble cell. *)

\* traj_ens = {}; then the for statement evaluates zip(range(n_trajs), p0s, q0s)
FwdStart ==
    /\ Begin("fwd")
    /\ traj_ens' = EmptyDict
    /\ IF n_trajs = UnboundInt \/ ~p0s.bound \/ ~q0s.bound
         THEN /\ err' = "NameError" /\ pc' = "idle" /\ itj' = itj
         ELSE /\ err' = "none" /\ pc' = "fwd_for" /\ itj' = 0
    /\ UNCHANGED <<lit_dt, lit_tmax, n_trajs, p0s, q0s, f, boltzweight,
                   inv_traj_ens, heap, p, q, p0, q0, dt, tmax, steps, plist, qlist,
                   flist, i, j, ps, qs, iti, qvars>>

\* every member's lists are the lists of member 0: created once, before the loop
SharedList(cell, jj, key) == <<cell, 0, key>>

\* the lists of the reversed cell are the lists of the forward cell
AliasList(cell, jj, key) == <<"fwd", jj, key>>

\* plist = []; qlist = []; flist = []: the new list object that member jj's
\* setup in a cell binds to the name key
NewList(cell, jj, key) == <<cell, jj, key>>

\* top of "for j, p0, q0 in zip(...)": the next member's setup, or the cell's end
FwdFor ==
    /\ pc = "fwd_for"
    /\ IF itj < n_trajs /\ itj < Len(p0s.v) /\ itj < Len(q0s.v)
         THEN /\ j' = itj
              /\ p0' = p0s.v[itj + 1]
              /\ q0' = q0s.v[itj + 1]
              /\ p' = Num(p0s.v[itj + 1])
              /\ q' = Num(q0s.v[itj + 1])
              /\ dt' = lit_dt
              /\ tmax' = lit_tmax
              /\ steps' = PyInt(RDiv(lit_tmax, lit_dt))
              /\ traj_ens' = [traj_ens EXCEPT !.d[itj] = EmptyEntry]
              /\ plist' = NewList("fwd", itj, "plist")
              /\ qlist' = NewList("fwd", itj, "qlist")
              /\ flist' = NewList("fwd", itj, "flist")
              /\ heap' = [heap EXCEPT ![NewList("fwd", itj, "plist")] = <<>>,
                                      ![NewList("fwd", itj, "qlist")] = <<>>,
                                      ![NewList("fwd", itj, "flist")] = <<>>]
              /\ itj' = itj + 1
              /\ iti' = 0
              /\ pc' = "fwd_step"
         ELSE /\ pc' = "idle"
              /\ UNCHANGED <<j, p0, q0, p, q, dt, tmax, steps, traj_ens, plist,
                             qlist, flist, heap, itj, iti>>
    /\ UNCHANGED <<lit_dt, lit_tmax, n_trajs, p0s, q0s, f, boltzweight,
                   inv_traj_ens, i, ps, qs, err, lastCell, doc, qvars>>

\* range(stop) of one pass fewer
InRangeShort(n, stop) == n + 1 < stop

\* "for n in range(stop)" has a pass for n
InRange(n, stop) == n < stop

\* the error f(q) raises when the name f is not the function
CallError(fb) == IF fb.k = "unbound" THEN "NameError" ELSE "TypeError"

\* one pass through "for i in range(steps)" of an integration cell:
\* the body (three updates, three appends), or, when the range is exhausted,
\* the three stores into the dictionary entry
LoopBody ==
    /\ i' = iti
    /\ iti' = iti + 1
    /\ IF f.k # "function"
         THEN /\ err' = CallError(f)
              /\ pc' = "idle"
              /\ UNCHANGED <<p, q, heap>>
         ELSE LET s == VVStep(p.r, q.r, dt)
              IN  /\ p' = Num(s[1])
                  /\ q' = Num(s[2])
                  /\ heap' = [heap EXCEPT ![plist] = Append(@, s[1]),
                                          ![qlist] = Append(@, s[2]),
                                          ![flist] = Append(@, def_f(s[2]))]
                  /\ UNCHANGED <<err, pc>>

FwdStep ==
    /\ pc = "fwd_step"
    /\ IF InRange(iti, steps)
         THEN /\ LoopBody
              /\ UNCHANGED traj_ens
         ELSE /\ traj_ens' = [traj_ens EXCEPT !.d[j] =
                     [present |-> TRUE, full |-> TRUE,
                      plist |-> plist, qlist |-> qlist, flist |-> flist]]
              /\ pc' = "fwd_for"
              /\ UNCHANGED <<i, iti, p, q, heap, err>>
    /\ UNCHANGED <<lit_dt, lit_tmax, n_trajs, p0s, q0s, f, boltzweight,
                   inv_traj_ens, p0, q0, dt, tmax, steps, plist, qlist, flist,
                   j, ps, qs, itj, lastCell, doc, qvars>>

(* The cells that read traj_ens in a loop over range(n_trajs). *)

\* entry kk of the dictionary can be read: traj_ens[kk]['plist'] and the others
Readable(dict, kk) == dict.bound /\ dict.d[kk].present /\ dict.d[kk].full

\* the number of passes of "for kk in range(n_trajs)" that read traj_ens[kk]
\* before one raises (n_trajs when none does)
Passes ==
    IF \A kk \in Members : Readable(traj_ens, kk) THEN NTrajs
    ELSE CHOOSE kk \in Members :
            /\ ~Readable(traj_ens, kk)
            /\ \A mm \in 0 .. (kk - 1) : Readable(traj_ens, mm)

\* the error of the pass that fails
ReadError == IF traj_ens.bound THEN "KeyError" ELSE "NameError"

\* for i in range(n_trajs): qlist = traj_ens[i]['qlist']; plist = ...; flist = ...
\*     p = np.asarray(plist); f = np.asarray(flist); q = np.asarray(qlist)
CellArc ==
    /\ Begin("arc")
    /\ IF n_trajs = UnboundInt
         THEN /\ err' = "NameError"
              /\ UNCHANGED <<i, qlist, plist, flist, p, f, q>>
         ELSE LET n == Passes
                  e == traj_ens.d[n - 1]
              IN  /\ i' = IF n < n_trajs THEN n ELSE n_trajs - 1
                  /\ err' = IF n < n_trajs THEN ReadError ELSE "none"
                  /\ IF n = 0
                       THEN UNCHANGED <<qlist, plist, flist, p, f, q>>
                       ELSE /\ qlist' = e.qlist
                            /\ plist' = e.plist
                            /\ flist' = e.flist
                            /\ p' = Arr(heap[e.plist])
                            /\ f' = Arr(heap[e.flist])
                            /\ q' = Arr(heap[e.qlist])
    /\ UNCHANGED <<lit_dt, lit_tmax, n_trajs, p0s, q0s, boltzweight, traj_ens,
                   inv_traj_ens, heap, p0, q0, dt, tmax, steps, j, ps, qs,
                   pc, itj, iti, qvars>>

\* for j in range(n_trajs): ps = np.asarray(traj_ens[j]['plist']); qs = ...
CellBoltz ==
    /\ Begin("boltz")
    /\ IF n_trajs = UnboundInt
         THEN /\ err' = "NameError"
              /\ UNCHANGED <<j, ps, qs>>
         ELSE LET n == Passes
                  e == traj_ens.d[n - 1]
              IN  /\ j' = IF n < n_trajs THEN n ELSE n_trajs - 1
                  /\ err' = IF n < n_trajs THEN ReadError ELSE "none"
                  /\ IF n = 0
                       THEN UNCHANGED <<ps, qs>>
                       ELSE /\ ps' = Arr(heap[e.plist])
                            /\ qs' = Arr(heap[e.qlist])
    /\ UNCHANGED <<lit_dt, lit_tmax, n_trajs, p0s, q0s, f, boltzweight, traj_ens,
                   inv_traj_ens, heap, p, q, p0, q0, dt, tmax, steps, plist, qlist,
                   flist, i, pc, itj, iti, qvars>>

(* The reversed ensemble cell. *)

\* inv_traj_ens = {}; then the for statement evaluates range(n_trajs)
InvStart ==
    /\ Begin("inv")
    /\ inv_traj_ens' = EmptyDict
    /\ IF n_trajs = UnboundInt
         THEN /\ err' = "NameError" /\ pc' = "idle" /\ itj' = itj
         ELSE /\ err' = "none" /\ pc' = "inv_for" /\ itj' = 0
    /\ UNCHANGED <<lit_dt, lit_tmax, n_trajs, p0s, q0s, f, boltzweight,
                   traj_ens, heap, p, q, p0, q0, dt, tmax, steps, plist, qlist,
                   flist, i, j, ps, qs, iti, qvars>>

\* the error of traj_ens[jj][key][-1], "none" when it has a value
LastError(jj, key) ==
    IF ~traj_ens.bound THEN "NameError"
    ELSE IF ~(traj_ens.d[jj].present /\ traj_ens.d[jj].full) THEN "KeyError"
    ELSE IF Len(heap[traj_ens.d[jj][key]]) = 0 THEN "IndexError"
    ELSE "none"

\* traj_ens[jj][key][-1]
Last(jj, key) == LET l == heap[traj_ens.d[jj][key]] IN l[Len(l)]

\* top of "for j in range(n_trajs)": the next member's setup, or the cell's end
InvFor ==
    /\ pc = "inv_for"
    /\ IF itj < n_trajs
         THEN /\ j' = itj
              /\ itj' = itj + 1
              /\ IF LastError(itj, "plist") # "none"
                   THEN /\ err' = LastError(itj, "plist")
                        /\ pc' = "idle"
                        /\ UNCHANGED <<p, q, inv_traj_ens, plist, qlist, flist,
                                       heap, iti>>
                   ELSE /\ p' = Num(RNeg(Last(itj, "plist")))
                        /\ IF LastError(itj, "qlist") # "none"
                             THEN /\ err' = LastError(itj, "qlist")
                                  /\ pc' = "idle"
                                  /\ UNCHANGED <<q, inv_traj_ens, plist, qlist,
                                                 flist, heap, iti>>
                             ELSE /\ q' = Num(Last(itj, "qlist"))
                                  /\ inv_traj_ens' =
                                        [inv_traj_ens EXCEPT !.d[itj] = EmptyEntry]
                                  /\ plist' = NewList("inv", itj, "plist")
                                  /\ qlist' = NewList("inv", itj, "qlist")
                                  /\ flist' = NewList("inv", itj, "flist")
                                  /\ heap' =
                                        [heap EXCEPT ![NewList("inv", itj, "plist")] = <<>>,
                                                     ![NewList("inv", itj, "qlist")] = <<>>,
                                                     ![NewList("inv", itj, "flist")] = <<>>]
                                  /\ iti' = 0
                                  /\ pc' = "inv_step"
                                  /\ UNCHANGED err
         ELSE /\ pc' = "idle"
              /\ UNCHANGED <<j, itj, p, q, inv_traj_ens, plist, qlist, flist, heap,
                             iti, err>>
    /\ UNCHANGED <<lit_dt, lit_tmax, n_trajs, p0s, q0s, f, boltzweight, traj_ens,
                   p0, q0, dt, tmax, steps, i, ps, qs, lastCell, doc, qvars>>

InvStep ==
    /\ pc = "inv_step"
    /\ IF steps = UnboundInt
         THEN /\ err' = "NameError"
              /\ pc' = "idle"
              /\ UNCHANGED <<i, iti, p, q, heap, inv_traj_ens>>
         ELSE IF InRange(iti, steps)
         THEN /\ LoopBody
              /\ UNCHANGED inv_traj_ens
         ELSE /\ inv_traj_ens' = [inv_traj_ens EXCEPT !.d[j] =
                     [present |-> TRUE, full |-> TRUE,
                      plist |-> plist, qlist |-> qlist, flist |-> flist]]
              /\ pc' = "inv_for"
              /\ UNCHANGED <<i, iti, p, q, heap, err>>
    /\ UNCHANGED <<lit_dt, lit_tmax, n_trajs, p0s, q0s, f, boltzweight,
                   traj_ens, p0, q0, dt, tmax, steps, plist, qlist, flist,
                   j, ps, qs, itj, lastCell, doc, qvars>>

(* The function boltzweight, called once the kernel is idle. *)

\* element kk of a value, a scalar being broadcast
ElementAt(v, kk) == IF v.k = "ndarray" THEN v.a[kk] ELSE v.r

\* -b * (x**2 / 2 + y**2 / 2), elementwise with NumPy's broadcasting
MinusBetaEnergy(x, y, b) ==
    LET e(kk) == RNeg(RMul(b, RAdd(RDiv(RMul(ElementAt(x, kk), ElementAt(x, kk)), Two),
                                   RDiv(RMul(ElementAt(y, kk), ElementAt(y, kk)), Two))))
    IN  IF x.k = "ndarray" THEN Arr([kk \in 1 .. Len(x.a) |-> e(kk)])
        ELSE IF y.k = "ndarray" THEN Arr([kk \in 1 .. Len(y.a) |-> e(kk)])
        ELSE Num(e(1))

\* def boltzweight(p, q, beta): return np.exp(-beta * (ps**2 / 2 + qs**2 / 2))
\* the body reads the globals ps and qs; the parameters pa and qa are not used
def_boltzweight(pa, qa, b) ==
    IF ps.k = "unbound" \/ qs.k = "unbound" THEN RetError("NameError")
    ELSE RetExp(MinusBetaEnergy(ps, qs, b))

\* the arguments <<p, q>> of a call: two numbers, or the arrays ps and qs
BoltzArgs ==
    {<<Num(Zero), Num(One)>>, <<Num(One), Num(Zero)>>}
        \cup (IF ps.k = "ndarray" /\ qs.k = "ndarray" THEN {<<ps, qs>>} ELSE {})

\* one call boltzweight(p, q, beta) per behaviour
CallBoltzweight ==
    /\ pc = "idle"
    /\ call = NoCall
    /\ boltzweight = "function"
    /\ \E a \in BoltzArgs : \E b \in {One, Two} :
          /\ call' = [NoCall EXCEPT !.fn = "boltzweight", !.p = a[1], !.q = a[2],
                                    !.beta = b]
          /\ ret' = def_boltzweight(a[1], a[2], b)
    /\ UNCHANGED nbvars

---------------------------------------------------------------------------
(* Reference formulas the claims compare the cells with.                   *)

\* the force law f(q) = -q
RefForce(x) == <<0 - x[1], x[2]>>

\* q(t + dt) = q(t) + p(t) dt + 1/2 f(q(t)) dt^2
ClosedQ(pp, qq, h) ==
    RAdd(RAdd(qq, RMul(pp, h)), RMul(RMul(Half, RefForce(qq)), RMul(h, h)))

\* p(t + dt) = p(t) + 1/2 (f(q(t)) + f(q(t + dt))) dt
ClosedP(pp, qq, q1, h) ==
    RAdd(pp, RMul(RMul(Half, RAdd(RefForce(qq), RefForce(q1))), h))

\* the state <<p, q>> after n steps of the two formulas from <<pp, qq>>
RECURSIVE RefState(_, _, _, _)
RefState(pp, qq, h, n) ==
    IF n = 0 THEN <<pp, qq>>
    ELSE LET s == RefState(pp, qq, h, n - 1)
             q1 == ClosedQ(s[1], s[2], h)
         IN  <<ClosedP(s[1], s[2], q1, h), q1>>

\* n is the quotient x / h truncated to an integer (x >= 0, h > 0)
IsTruncatedQuotient(n, x, h) ==
    /\ n >= 0
    /\ RLe(RMul(RInt(n), h), x)
    /\ RLt(x, RMul(RInt(n + 1), h))

\* p^2/2 + q^2/2
Energy(pp, qq) == RAdd(RDiv(RMul(pp, pp), Two), RDiv(RMul(qq, qq), Two))

\* a cell has run to its end without raising
Completed(cell) == lastCell = cell /\ pc = "idle" /\ err = "none"

\* the lists of member jj in the two dictionaries
FwdList(jj, key) == heap[traj_ens.d[jj][key]]
InvList(jj, key) == heap[inv_traj_ens.d[jj][key]]

---------------------------------------------------------------------------
(* Claims about the integration cells (specification Spec).                *)

\* a pass of the loop body of an integration cell has just updated the state
StepTaken ==
    /\ pc \in {"fwd_step", "inv_step"}
    /\ pc' = pc
    /\ iti' = iti + 1

(* C1: every integrator step is half-kick, drift, half-kick: it takes      *)
(* (p, q) to q' = q + p dt + f(q) dt^2 / 2, p' = p + (f(q) + f(q')) dt / 2 *)
(* and appends p', q', f(q'); from p = 0, q = 1 with dt = 0.01 the new     *)
(* position is 0.99995.                                                    *)
C1_StepIsVelocityVerlet ==
    [][StepTaken =>
          /\ q'.r = ClosedQ(p.r, q.r, dt)
          /\ p'.r = ClosedP(p.r, q.r, q'.r, dt)
          /\ heap'[plist] = Append(heap[plist], p'.r)
          /\ heap'[qlist] = Append(heap[qlist], q'.r)
          /\ heap'[flist] = Append(heap[flist], RefForce(q'.r))
          /\ (p.r = Zero /\ q.r = One /\ dt = Hundredth
                => q'.r = <<19999, 20000>>)]_vars

C1_Witness ==
    /\ pc = "fwd_step" /\ iti = 1 /\ dt = Hundredth
    /\ p0 = Zero /\ q0 = One
    /\ q = Num(<<19999, 20000>>)
    /\ heap[qlist] = <<<<19999, 20000>>>>

(* C2: after the forward cell, for every member the three lists have       *)
(* steps = int(tmax / dt) entries each, entry k (from 0) is the state      *)
(* after k + 1 steps from (p0, q0), which itself is not stored, and        *)
(* flist[k] = f(qlist[k]).                                                 *)
C2_ForwardRecord ==
    Completed("fwd") =>
        /\ IsTruncatedQuotient(steps, tmax, dt)
        /\ \A jj \in Members :
              /\ Readable(traj_ens, jj)
              /\ Len(FwdList(jj, "plist")) = steps
              /\ Len(FwdList(jj, "qlist")) = steps
              /\ Len(FwdList(jj, "flist")) = steps
              /\ \A kk \in 1 .. steps :
                    LET s == RefState(p0s.v[jj + 1], q0s.v[jj + 1], dt, kk)
                    IN  /\ FwdList(jj, "plist")[kk] = s[1]
                        /\ FwdList(jj, "qlist")[kk] = s[2]
                        /\ FwdList(jj, "flist")[kk] = RefForce(s[2])

C2_Witness ==
    /\ Completed("fwd")
    /\ steps = MaxTmax
    /\ Len(FwdList(1, "qlist")) = MaxTmax
    /\ FwdList(1, "qlist")[1] # q0s.v[2]

\* the reversed cell has run to its end on trajectories of at least two steps
ReversedDone == Completed("inv") /\ steps >= 2

C4_DocumentOrderRerun ==
    (doc = DocIndex("inv") /\ pc = "idle" /\ steps >= 1) =>
        /\ f.k = "function"
        /\ dt = lit_dt
        /\ IsTruncatedQuotient(steps, lit_tmax, lit_dt)
        /\ err = "none"
        /\ \A jj \in Members :
              /\ Readable(inv_traj_ens, jj)
              /\ Len(InvList(jj, "plist")) = steps
              /\ Len(InvList(jj, "qlist")) = steps
              /\ Len(InvList(jj, "flist")) = steps

\* the squares of the states fit TLC's integers: every step size but 0.01,
\* and 0.01 from the start (p0, q0) = (1, 0)
EnergyInRange == dt # Hundredth \/ (p0 = One /\ q0 = Zero)

RefTrajectory(pp, qq, h, n, key) ==
    [kk \in 1 .. n |->
        LET s == RefState(pp, qq, h, kk)
        IN  CASE key = "plist" -> s[1]
              [] key = "qlist" -> s[2]
              [] key = "flist" -> RefForce(s[2])]

(* C13: after the forward cell traj_ens has exactly the keys               *)
(* 0 .. n_trajs - 1, the record of member j is the one a run from          *)
(* (p0s[j], q0s[j]) with dt and steps gives on its own, whatever the       *)
(* other members started from, and no two entries share a list.            *)
C13_MembersIndependent ==
    Completed("fwd") =>
        /\ traj_ens.bound
        /\ n_trajs = NTrajs
        /\ \A jj \in Members :
              /\ Readable(traj_ens, jj)
              /\ \A key \in Keys :
                    /\ FwdList(jj, key)
                          = RefTrajectory(p0s.v[jj + 1], q0s.v[jj + 1], dt, steps, key)
                    /\ \A kk \in Members : \A key2 \in Keys :
                          (traj_ens.d[jj][key] = traj_ens.d[kk][key2])
                              => (jj = kk /\ key = key2)
              /\ \A kk \in Members :
                    (p0s.v[jj + 1] = p0s.v[kk + 1] /\ q0s.v[jj + 1] = q0s.v[kk + 1])
                        => \A key \in Keys : FwdList(jj, key) = FwdList(kk, key)

C13_Witness ==
    /\ Completed("fwd")
    /\ steps >= 2
    /\ q0s.v[1] # q0s.v[2]
    /\ FwdList(0, "qlist") # FwdList(1, "qlist")
    /\ FwdList(0, "qlist") = RefTrajectory(p0s.v[1], q0s.v[1], dt, steps, "qlist")

\* the list objects the entries of a dictionary hold
ListsOf(dict) ==
    {dict.d[jj][key] : jj \in {kk \in Members : dict.d[kk].full}, key \in Keys}

(* C15: no step of the reversed cell changes traj_ens or the length or     *)
(* content of a list stored in it, although the cell reads the last        *)
(* elements and rebinds the names plist, qlist, flist; and inv_traj_ens    *)
(* shares no list with traj_ens.                                           *)
C15_ForwardImmutable ==
    [][lastCell' = "inv" =>
          /\ traj_ens' = traj_ens
          /\ \A id \in ListsOf(traj_ens) : heap'[id] = heap[id]
          /\ ListsOf(inv_traj_ens') \cap ListsOf(traj_ens') = {}
          /\ pc' = "inv_step" =>
                {plist', qlist', flist'} \cap ListsOf(traj_ens') = {}]_vars

C15_Witness ==
    /\ Completed("inv")
    /\ steps = MaxTmax
    /\ ListsOf(traj_ens) # {}
    /\ ListsOf(inv_traj_ens) # {}
    /\ \A jj \in Members : Len(FwdList(jj, "plist")) = steps
    /\ InvList(0, "plist") # FwdList(0, "plist")
    /\ plist \in ListsOf(inv_traj_ens)

\* p^2 + (1 - dt^2 / 4) q^2
ShadowEnergy(pp, qq, h) ==
    RAdd(RMul(pp, pp), RMul(RSub(One, RDiv(RMul(h, h), <<4, 1>>)), RMul(qq, qq)))

\* the squares of the states of member j fit TLC's integers: every step size
\* but 0.01, and 0.01 from the start (1, 0)
ShadowInRange ==
    dt # Hundredth \/ (p0s.v[j + 1] = One /\ q0s.v[j + 1] = Zero)

(* C16: with f(q) = -q, at every step of a forward or reversed trajectory  *)
(* p^2 + (1 - dt^2/4) q^2 has the value it has at the initial state        *)
(* (p0, q0) of the member, for every dt; hence the energy error is         *)
(* E_n - E_0 = dt^2/8 (q_n^2 - q_0^2).                                     *)
C16_ShadowEnergyConserved ==
    (pc \in {"fwd_step", "inv_step"} /\ ShadowInRange) =>
        LET ps0 == p0s.v[j + 1]
            qs0 == q0s.v[j + 1]
        IN  /\ ShadowEnergy(p.r, q.r, dt) = ShadowEnergy(ps0, qs0, dt)
            /\ RSub(Energy(p.r, q.r), Energy(ps0, qs0))
                  = RMul(RDiv(RMul(dt, dt), <<8, 1>>),
                         RSub(RMul(q.r, q.r), RMul(qs0, qs0)))

C16_Witness ==
    /\ pc = "fwd_step" /\ dt = Half /\ iti >= 3
    /\ Energy(p.r, q.r) # Energy(p0, q0)
    /\ ShadowEnergy(p.r, q.r, dt) = ShadowEnergy(p0, q0, dt)

\* the state s_n = <<p_n, q_n>> the forward run of member jj visits after n steps
FwdState(jj, n) ==
    IF n = 0 THEN <<p0s.v[jj + 1], q0s.v[jj + 1]>>
    ELSE <<FwdList(jj, "plist")[n], FwdList(jj, "qlist")[n]>>

Next ==
    \/ CellSample
    \/ CellDefF
    \/ CellDefBoltzweight
    \/ FwdStart
    \/ FwdFor
    \/ FwdStep
    \/ CellArc
    \/ CellBoltz
    \/ InvStart
    \/ InvFor
    \/ InvStep

Spec == Init /\ [][Next]_vars

---------------------------------------------------------------------------
(* SpecB: the cells with one step size, and one call of boltzweight.       *)

InitB == Init /\ lit_dt = Two /\ lit_tmax = <<3, 1>>

NextB == Next \/ CallBoltzweight

SpecB == InitB /\ [][NextB]_vars

(* C14: boltzweight(p, q, beta) returns exp(-beta (p^2/2 + q^2/2)) of its  *)
(* own arguments p and q, whatever the globals hold (here: whenever the    *)
(* call returns at all).                                                   *)
C14_WeightOfArguments ==
    (Returned("boltzweight") /\ ret.k # "error") =>
        ret = RetExp(MinusBetaEnergy(call.p, call.q, call.beta))


===========================================================================
